---- MODULE Spec2Model ----
(***************************************************************************)
(* A model of mx3tools/ovftools.py: the OVF header reader, the byte-order  *)
(* detector, the text / binary / scalar payload decoders and the group     *)
(* sequencer.                                                              *)
(*                                                                         *)
(* Files are sequences of bytes (0..255).  Python str and bytes objects    *)
(* are both sequences of byte values; header lines are ASCII.              *)
(* A Python call that may raise is an operator returning a record          *)
(* [ok |-> TRUE, val |-> v] or [ok |-> FALSE, exc |-> "<exception type>"]. *)
(* Floating point numbers are exact rationals [n, d, raw] where float      *)
(* arithmetic is exact (small dyadic values); a bit pattern outside that   *)
(* range is kept as its raw bytes (d = 0).                                 *)
(***************************************************************************)
EXTENDS Integers, Sequences, FiniteSets, TLC

\* ------------------------------------------------------------------------
\* Bounds of the model
\* ------------------------------------------------------------------------

\* xnodes, ynodes and znodes of the generated files range over 1..MaxNodes.
MaxNodes == 2

\* A group directory holds at most MaxFiles entries.
MaxFiles == 2

\* ------------------------------------------------------------------------
\* String literals of ovftools.py, as ASCII byte sequences
\* ------------------------------------------------------------------------

s_BeginData == <<66, 101, 103, 105, 110, 58, 32, 68, 97, 116, 97>>   \* "Begin: Data"
s_ColonSpace == <<58, 32>>   \* ": "
s_Colon == <<58>>   \* ":"
s_Comma == <<44>>   \* ","
s_TotalSimTime == <<84, 111, 116, 97, 108, 32, 115, 105, 109, 117, 108, 97, 116, 105, 111, 110, 32, 116, 105, 109, 101>>   \* "Total simulation time"
s_Iteration == <<73, 116, 101, 114, 97, 116, 105, 111, 110>>   \* "Iteration"
s_Stage == <<83, 116, 97, 103, 101>>   \* "Stage"
s_MIFSourceFile == <<77, 73, 70, 32, 115, 111, 117, 114, 99, 101, 32, 102, 105, 108, 101>>   \* "MIF source file"
s_Text == <<84, 101, 120, 116>>   \* "Text"
s_Binary == <<66, 105, 110, 97, 114, 121>>   \* "Binary"
s_dot_out == <<46, 111, 117, 116>>   \* ".out"
s_dot_ovf == <<46, 111, 118, 102>>   \* ".ovf"
k_xbase == <<120, 98, 97, 115, 101>>   \* "xbase"
k_ybase == <<121, 98, 97, 115, 101>>   \* "ybase"
k_zbase == <<122, 98, 97, 115, 101>>   \* "zbase"
k_xstepsize == <<120, 115, 116, 101, 112, 115, 105, 122, 101>>   \* "xstepsize"
k_ystepsize == <<121, 115, 116, 101, 112, 115, 105, 122, 101>>   \* "ystepsize"
k_zstepsize == <<122, 115, 116, 101, 112, 115, 105, 122, 101>>   \* "zstepsize"
k_xnodes == <<120, 110, 111, 100, 101, 115>>   \* "xnodes"
k_ynodes == <<121, 110, 111, 100, 101, 115>>   \* "ynodes"
k_znodes == <<122, 110, 111, 100, 101, 115>>   \* "znodes"
k_valuemultiplier == <<118, 97, 108, 117, 101, 109, 117, 108, 116, 105, 112, 108, 105, 101, 114>>   \* "valuemultiplier"

\* The ten keys of _read_header's for loop, in its order: the dictionary key
\* and the text searched for in the line.
HeaderKeys ==
    << [key |-> "xbase", pat |-> k_xbase],
       [key |-> "ybase", pat |-> k_ybase],
       [key |-> "zbase", pat |-> k_zbase],
       [key |-> "xstepsize", pat |-> k_xstepsize],
       [key |-> "ystepsize", pat |-> k_ystepsize],
       [key |-> "zstepsize", pat |-> k_zstepsize],
       [key |-> "xnodes", pat |-> k_xnodes],
       [key |-> "ynodes", pat |-> k_ynodes],
       [key |-> "znodes", pat |-> k_znodes],
       [key |-> "valuemultiplier", pat |-> k_valuemultiplier] >>

\* ------------------------------------------------------------------------
\* Python results and exceptions
\* ------------------------------------------------------------------------

Ok(v) == [ok |-> TRUE, val |-> v]
Raise(e) == [ok |-> FALSE, exc |-> e]

\* F(e), with e evaluated once and its value bound to F's parameter.
Let(e, F(_)) == CHOOSE r \in {F(x) : x \in {e}} : TRUE

\* The least and the greatest element of a non-empty set of integers.
Min(S) == CHOOSE x \in S : \A y \in S : x <= y
Max(S) == CHOOSE x \in S : \A y \in S : y <= x

\* ------------------------------------------------------------------------
\* Python str / bytes methods used by ovftools.py
\* ------------------------------------------------------------------------

\* bytes.strip() and bytes.split() whitespace: b' \t\n\r\x0b\x0c'.
BytesWS == {9, 10, 11, 12, 13, 32}

\* str.strip() and str.split() whitespace, ASCII part: the above and \x1c..\x1f.
StrWS == BytesWS \cup {28, 29, 30, 31}

\* sub in s
Contains(s, sub) ==
    \E i \in 1..(Len(s) - Len(sub) + 1) : SubSeq(s, i, i + Len(sub) - 1) = sub

\* s.find(sub, start) + 1 for start from 1: the first position of sub in s
\* at or after start, 0 when there is none.
Find(s, sub, start) ==
    LET at == {i \in start..(Len(s) - Len(sub) + 1) : SubSeq(s, i, i + Len(sub) - 1) = sub}
    IN IF at = {} THEN 0 ELSE Min(at)

\* s.strip()
Strip(ws, s) ==
    LET keep == {i \in 1..Len(s) : s[i] \notin ws}
    IN IF keep = {} THEN <<>> ELSE SubSeq(s, Min(keep), Max(keep))

\* s.split(sep, maxsplit) for a non-empty sep; maxsplit = -1 for no limit.
\* From[st, m] is the split of s[st..] with m splits left.
SplitSep(s, sep, maxsplit) ==
    LET From[st \in Nat, m \in Int] ==
            LET i == Find(s, sep, st)
            IN IF i = 0 \/ m = 0 THEN <<SubSeq(s, st, Len(s))>>
               ELSE <<SubSeq(s, st, i - 1)>>
                    \o From[i + Len(sep), IF m < 0 THEN m ELSE m - 1]
    IN From[1, maxsplit]

\* s.split(): split on runs of whitespace, no empty strings in the result.
SplitWS(ws, s) ==
    LET starts == {i \in 1..Len(s) : s[i] \notin ws /\ (i = 1 \/ s[i - 1] \in ws)}
        stop(a) == Min({i \in a..Len(s) : i = Len(s) \/ s[i + 1] \in ws})
        nth(k) == CHOOSE a \in starts : Cardinality({b \in starts : b < a}) = k - 1
    IN [k \in 1..Cardinality(starts) |-> SubSeq(s, nth(k), stop(nth(k)))]

\* bytes.decode(): the header lines of the files modelled are ASCII; a byte
\* over 127 is not ASCII and none of the payload bytes modelled starts a
\* well-formed UTF-8 sequence.
decode(b) ==
    IF \E i \in 1..Len(b) : b[i] > 127 THEN Raise("UnicodeDecodeError") ELSE Ok(b)

\* ------------------------------------------------------------------------
\* Numbers
\* ------------------------------------------------------------------------

Abs(x) == IF x < 0 THEN -x ELSE x

GCD(a, b) ==
    LET G[x \in Nat, y \in Nat] == IF y = 0 THEN x ELSE G[y, x % y]
    IN G[a, b]

\* The float n/d, in lowest terms.
Rat(n, d) ==
    LET g == GCD(Abs(n), Abs(d))
        s == IF d < 0 THEN -1 ELSE 1
    IN [n |-> (s * n) \div g, d |-> (s * d) \div g, raw |-> <<>>]

\* A float known only by its bits: width w, bytes most significant first.
Bits(msb) == [n |-> 0, d |-> 0, raw |-> msb]

\* a * b on floats.  1 is the identity on every float.
FMul(a, b) ==
    IF a.d # 0 /\ b.d # 0 THEN Rat(a.n * b.n, a.d * b.d)
    ELSE IF b = Rat(1, 1) THEN a
    ELSE IF a = Rat(1, 1) THEN b
    ELSE [n |-> 0, d |-> 0, raw |-> a.raw \o <<a.n, a.d, 256>> \o b.raw \o <<b.n, b.d>>]

\* int(x) of a float: truncation toward zero.
FloatToInt(x) == IF x.n >= 0 THEN x.n \div x.d ELSE -((-x.n) \div x.d)

IsDigit(c) == c \in 48..57

\* The number a string of decimal digits denotes.
DigitsValue(s) ==
    LET D[i \in Nat] == IF i = 0 THEN 0 ELSE 10 * D[i - 1] + (s[i] - 48)
    IN D[Len(s)]

\* float(s) of a str or bytes s: surrounding whitespace is dropped, then
\* [sign] digits [. digits] is read as a decimal number; anything else is a
\* ValueError.  (Exponents, inf, nan and underscores are not generated.)
float(ws, s) ==
    LET t == Strip(ws, s)
        neg == t # <<>> /\ t[1] = 45
        u == IF t # <<>> /\ t[1] \in {43, 45} THEN Tail(t) ELSE t
        dot == Find(u, <<46>>, 1)
        ip == IF dot = 0 THEN u ELSE SubSeq(u, 1, dot - 1)
        fp == IF dot = 0 THEN <<>> ELSE SubSeq(u, dot + 1, Len(u))
        wellformed == /\ \A i \in 1..Len(ip) : IsDigit(ip[i])
                      /\ \A i \in 1..Len(fp) : IsDigit(fp[i])
                      /\ Len(ip) + Len(fp) > 0
        mag == Rat(DigitsValue(ip \o fp), 10 ^ Len(fp))
    IN IF ~wellformed THEN Raise("ValueError")
       ELSE Ok(IF neg THEN Rat(-mag.n, mag.d) ELSE mag)

\* int(s) of a str: surrounding whitespace is dropped, then [sign] digits.
int(ws, s) ==
    LET t == Strip(ws, s)
        neg == t # <<>> /\ t[1] = 45
        u == IF t # <<>> /\ t[1] \in {43, 45} THEN Tail(t) ELSE t
    IN IF u = <<>> \/ \E i \in 1..Len(u) : ~IsDigit(u[i]) THEN Raise("ValueError")
       ELSE Ok(IF neg THEN -DigitsValue(u) ELSE DigitsValue(u))

\* ------------------------------------------------------------------------
\* struct and numpy
\* ------------------------------------------------------------------------

\* The struct / numpy format strings of _endianness.
fmt_width(fmt) == IF fmt \in {">f", "<f"} THEN 4 ELSE 8
fmt_big(fmt) == fmt \in {">f", ">d"}

Reverse(s) == [i \in 1..Len(s) |-> s[Len(s) + 1 - i]]

\* The IEEE 754 value of w bytes given most significant byte first:
\* binary32 (1 sign, 8 exponent, 23 fraction bits) for w = 4, binary64
\* (1, 11, 52) for w = 8.  The value is computed exactly when the fraction
\* lies within bytes 2..4 and the exponent within -7..30 of the bias; any
\* other pattern (subnormal, infinite, NaN, longer fraction) is kept as bits.
ieee754(w, msb) ==
    LET sign == msb[1] \div 128
        bias == IF w = 4 THEN 127 ELSE 1023
        e    == IF w = 4 THEN (msb[1] % 128) * 2 + msb[2] \div 128
                         ELSE (msb[1] % 128) * 16 + msb[2] \div 16
        fbits == IF w = 4 THEN 23 ELSE 20
        ftop  == (IF w = 4 THEN msb[2] % 128 ELSE msb[2] % 16) * 65536
                 + msb[3] * 256 + msb[4]
        lowzero == \A i \in 5..w : msb[i] = 0
        mant == (2 ^ fbits) + ftop
        x    == e - bias
        mag  == IF x >= fbits THEN Rat(mant * (2 ^ (x - fbits)), 1)
                ELSE Rat(mant, 2 ^ (fbits - x))
    IN IF e = 0 /\ ftop = 0 /\ lowzero THEN Rat(0, 1)
       ELSE IF lowzero /\ x \in -7..30
            THEN (IF sign = 1 THEN Rat(-mag.n, mag.d) ELSE mag)
       ELSE Bits(<<w>> \o msb)

\* struct.unpack(fmt, buffer)[0]
struct_unpack(fmt, buffer) ==
    IF Len(buffer) # fmt_width(fmt) THEN Raise("struct.error")
    ELSE Let(IF fmt_big(fmt) THEN buffer ELSE Reverse(buffer),
             LAMBDA msb : Ok(ieee754(fmt_width(fmt), msb)))

\* None
None == [kind |-> "None"]

\* An array is [kind |-> "ndarray", shape, flat]: its shape and its elements
\* in C (row-major) order.
Product(shape) ==
    LET P[i \in Nat] == IF i = 0 THEN 1 ELSE P[i - 1] * shape[i]
    IN P[Len(shape)]

\* np.ndarray(shape=(rows, cols), dtype=dtype, buffer=buffer, offset=0,
\* strides=strides): element [r][c] is the item of dtype at byte
\* r*strides[1] + c*strides[2] of the buffer.
np_ndarray(shape, dtype, buffer, strides) ==
    LET w == fmt_width(dtype)
        rows == shape[1]
        cols == shape[2]
        need == IF rows * cols = 0 THEN 0
                ELSE (rows - 1) * strides[1] + (cols - 1) * strides[2] + w
        off(p) == ((p - 1) \div cols) * strides[1] + ((p - 1) % cols) * strides[2]
        item(p) == struct_unpack(dtype, SubSeq(buffer, off(p) + 1, off(p) + w)).val
    IN IF need > Len(buffer) THEN Raise("TypeError")
       ELSE Ok([kind |-> "ndarray", shape |-> shape,
                flat |-> [p \in 1..(rows * cols) |-> item(p)]])

\* ndarray.reshape(newshape)
reshape(arr, newshape) ==
    IF Product(newshape) # Product(arr.shape) THEN Raise("ValueError")
    ELSE Ok([kind |-> "ndarray", shape |-> newshape, flat |-> arr.flat])

\* arr * x
np_multiply(arr, x) ==
    [kind |-> "ndarray", shape |-> arr.shape,
     flat |-> [p \in 1..Len(arr.flat) |-> FMul(arr.flat[p], x)]]

\* arr[idx] for a full index idx (0-based, one entry per axis).
Elem(arr, idx) ==
    LET Ravel[i \in Nat] == IF i = 0 THEN 0 ELSE Ravel[i - 1] * arr.shape[i] + idx[i]
    IN arr.flat[Ravel[Len(idx)] + 1]

\* ------------------------------------------------------------------------
\* File objects
\* ------------------------------------------------------------------------

\* An open binary file: its bytes and the number of bytes consumed.
open(data) == [data |-> data, pos |-> 0]

\* f.read(n) that hands out the bytes and leaves the file where it was.
read_in_place(f, n) ==
    LET m == IF n < 0 \/ n > Len(f.data) - f.pos THEN Len(f.data) - f.pos ELSE n
    IN [bytes |-> SubSeq(f.data, f.pos + 1, f.pos + m),
        f |-> f]

\* f.read(n): the bytes read and the file after the read.
read(f, n) ==
    LET m == IF n < 0 \/ n > Len(f.data) - f.pos THEN Len(f.data) - f.pos ELSE n
    IN [bytes |-> SubSeq(f.data, f.pos + 1, f.pos + m),
        f |-> [f EXCEPT !.pos = f.pos + m]]

\* f.readline(): up to and including the next b'\n', or to the end of file.
readline(f) ==
    LET nl == {i \in (f.pos + 1)..Len(f.data) : f.data[i] = 10}
        e  == IF nl = {} THEN Len(f.data) ELSE CHOOSE i \in nl : \A j \in nl : i <= j
    IN [bytes |-> SubSeq(f.data, f.pos + 1, e),
        f |-> [f EXCEPT !.pos = e]]

\* ------------------------------------------------------------------------
\* ovftools.py: _read_header
\* ------------------------------------------------------------------------

\* headers[k] = v
dict_set(h, k, v) == [x \in (DOMAIN h) \cup {k} |-> IF x = k THEN v ELSE h[x]]

\* headers = {'SimTime': -1, 'Iteration': -1, 'Stage': -1, 'MIFSource': ''}
InitialHeaders ==
    [x \in {"SimTime", "Iteration", "Stage", "MIFSource"} |->
        IF x = "MIFSource" THEN <<>> ELSE Rat(-1, 1)]

\* for key in [...]: if key in line: headers[key] = float(line.split(': ')[1])
RECURSIVE KeyLoop(_, _, _)
KeyLoop(i, line, h) ==
    IF i > Len(HeaderKeys) THEN Ok(h)
    ELSE IF ~Contains(line, HeaderKeys[i].pat) THEN KeyLoop(i + 1, line, h)
    ELSE LET parts == SplitSep(line, s_ColonSpace, -1)
             v == float(StrWS, parts[2])
         IN IF Len(parts) < 2 THEN Raise("IndexError")
            ELSE IF ~v.ok THEN Raise(v.exc)
            ELSE Let(dict_set(h, HeaderKeys[i].key, v.val),
                     LAMBDA h2 : KeyLoop(i + 1, line, h2))

\* line.split(':')[2].split(',')[0].strip(), then float
ThirdSegment(line) ==
    LET parts == SplitSep(line, s_Colon, -1)
    IN IF Len(parts) < 3 THEN Raise("IndexError")
       ELSE float(StrWS, Strip(StrWS, SplitSep(parts[3], s_Comma, -1)[1]))

\* The if / elif chain on the provenance lines.
Provenance(line, h) ==
    IF Contains(line, s_TotalSimTime)
    THEN LET parts == SplitSep(line, s_Colon, -1)
             toks == SplitWS(StrWS, Strip(StrWS, parts[Len(parts)]))
             v == float(StrWS, Strip(StrWS, toks[1]))
         IN IF toks = <<>> THEN Raise("IndexError")
            ELSE IF ~v.ok THEN Raise(v.exc)
            ELSE Ok(dict_set(h, "SimTime", v.val))
    ELSE IF Contains(line, s_Iteration)
    THEN LET v == ThirdSegment(line)
         IN IF ~v.ok THEN Raise(v.exc) ELSE Ok(dict_set(h, "Iteration", v.val))
    ELSE IF Contains(line, s_Stage)
    THEN LET v == ThirdSegment(line)
         IN IF ~v.ok THEN Raise(v.exc) ELSE Ok(dict_set(h, "Stage", v.val))
    ELSE IF Contains(line, s_MIFSourceFile)
    THEN LET parts == SplitSep(line, s_Colon, 2)
         IN IF Len(parts) < 3 THEN Raise("IndexError")
            ELSE Ok(dict_set(h, "MIFSource", Strip(StrWS, parts[3])))
    ELSE Ok(h)

\* One iteration of the while loop: read a line, take the keys it holds.
\* At the end of the file readline() gives b'' and the line is ''.
read_header_body(fobj, h) ==
    Let(readline(fobj), LAMBDA rl :
    Let(decode(Strip(BytesWS, rl.bytes)), LAMBDA dl :
        IF ~dl.ok THEN [res |-> Raise(dl.exc), f |-> rl.f, line |-> <<>>]
        ELSE Let(KeyLoop(1, dl.val, h), LAMBDA k :
             IF ~k.ok THEN [res |-> Raise(k.exc), f |-> rl.f, line |-> dl.val]
             ELSE [res |-> Provenance(dl.val, k.val), f |-> rl.f, line |-> dl.val])))

\* The loop's condition: while 'Begin: Data' not in line
read_header_looping(line) == ~Contains(line, s_BeginData)

\* After the loop: headers['data_type'] = line.split()
read_header_return(line, h) == dict_set(h, "data_type", SplitWS(StrWS, line))

\* ------------------------------------------------------------------------
\* ovftools.py: _endianness
\* ------------------------------------------------------------------------

big_endian(nbytes) == IF nbytes = 4 THEN ">f" ELSE ">d"
little_endian(nbytes) == IF nbytes = 4 THEN "<f" ELSE "<d"

\* value = {4: 1234567.0, 8: 123456789012345.0}; the second has a 47-bit
\* significand and is held by its binary64 bits 42 DC 12 21 83 77 DE 40.
value(nbytes) ==
    IF nbytes = 4 THEN Rat(1234567, 1)
    ELSE Bits(<<8, 66, 220, 18, 33, 131, 119, 222, 64>>)

\* hex(buffer): hex() takes an integer, buffer is a bytes object.
hex(buffer) == Raise("TypeError")

\* _endianness with the formats of the two branches exchanged.
_endianness_swapped(f, nbytes) ==
    Let(read(f, nbytes), LAMBDA rd :
        LET buffer == rd.bytes
            be == struct_unpack(big_endian(nbytes), buffer)
            le == struct_unpack(little_endian(nbytes), buffer)
            res == IF nbytes \notin {4, 8} THEN Raise("KeyError")
                   ELSE IF ~be.ok THEN Raise(be.exc)
                   ELSE IF be.val = value(nbytes) THEN Ok(little_endian(nbytes))
                   ELSE IF le.val = value(nbytes) THEN Ok(big_endian(nbytes))
                   ELSE IF ~hex(buffer).ok THEN Raise(hex(buffer).exc)
                   ELSE Raise("IOError")
        IN [res |-> res, f |-> rd.f])

\* _endianness(f, nbytes): the format found or the exception raised, and the
\* file after the read.
_endianness(f, nbytes) ==
    Let(read(f, nbytes), LAMBDA rd :
        LET buffer == rd.bytes
            be == struct_unpack(big_endian(nbytes), buffer)
            le == struct_unpack(little_endian(nbytes), buffer)
            res == IF nbytes \notin {4, 8} THEN Raise("KeyError")
                   ELSE IF ~be.ok THEN Raise(be.exc)
                   ELSE IF be.val = value(nbytes) THEN Ok(big_endian(nbytes))
                   ELSE IF le.val = value(nbytes) THEN Ok(little_endian(nbytes))
                   ELSE IF ~hex(buffer).ok THEN Raise(hex(buffer).exc)
                   ELSE Raise("IOError")
        IN [res |-> res, f |-> rd.f])

\* ------------------------------------------------------------------------
\* ovftools.py: the decoders
\* ------------------------------------------------------------------------

\* The first of the keys (in the order the code reads them) that the
\* dictionary lacks, "" when it has them all: headers[k] is a KeyError.
MissingKey(h, keys) ==
    LET miss == {i \in 1..Len(keys) : keys[i] \notin DOMAIN h}
    IN IF miss = {} THEN "" ELSE keys[CHOOSE i \in miss : \A j \in miss : i <= j]

\* headers.get('valuemultiplier', 1)
get_valuemultiplier(h) ==
    IF "valuemultiplier" \in DOMAIN h THEN h["valuemultiplier"] ELSE Rat(1, 1)

\* The three nested loops of _text_decode over the cells, in the order
\* k (z), j (y), i (x): the cells left to read, the values stored so far.
RECURSIVE TextLoop(_, _, _)
TextLoop(f, left, flat) ==
    IF left = 0 THEN [res |-> Ok(flat), f |-> f]
    ELSE Let(readline(f), LAMBDA rl :
         Let(SplitWS(BytesWS, Strip(BytesWS, rl.bytes)), LAMBDA text :
             LET v0 == float(BytesWS, text[1])
                 v1 == float(BytesWS, text[2])
                 v2 == float(BytesWS, text[3])
             IN IF Len(text) < 1 THEN [res |-> Raise("IndexError"), f |-> rl.f]
                ELSE IF ~v0.ok THEN [res |-> Raise(v0.exc), f |-> rl.f]
                ELSE IF Len(text) < 2 THEN [res |-> Raise("IndexError"), f |-> rl.f]
                ELSE IF ~v1.ok THEN [res |-> Raise(v1.exc), f |-> rl.f]
                ELSE IF Len(text) < 3 THEN [res |-> Raise("IndexError"), f |-> rl.f]
                ELSE IF ~v2.ok THEN [res |-> Raise(v2.exc), f |-> rl.f]
                ELSE Let(flat \o <<v0.val, v1.val, v2.val>>,
                         LAMBDA flat2 : TextLoop(rl.f, left - 1, flat2))))

\* _text_decode(f, headers)
_text_decode(f, headers) ==
    LET miss == MissingKey(headers, <<"znodes", "ynodes", "xnodes">>)
        zs == FloatToInt(headers["znodes"])
        ys == FloatToInt(headers["ynodes"])
        xs == FloatToInt(headers["xnodes"])
    IN IF miss # "" THEN [res |-> Raise("KeyError"), f |-> f]
       ELSE Let(TextLoop(f, zs * ys * xs, <<>>), LAMBDA lp :
            IF ~lp.res.ok THEN lp
            ELSE [res |-> Ok(np_multiply([kind |-> "ndarray", shape |-> <<zs, ys, xs, 3>>,
                                          flat |-> lp.res.val],
                                         get_valuemultiplier(headers))),
                  f |-> lp.f])

\* _fast_binary_decode reshaping to (xs, ys, zs, 3), the axes in header order.
_fast_binary_decode_transposed(f, chunk_size, headers, dtype) ==
    LET miss == MissingKey(headers, <<"xnodes", "ynodes", "znodes">>)
        xs == FloatToInt(headers["xnodes"])
        ys == FloatToInt(headers["ynodes"])
        zs == FloatToInt(headers["znodes"])
    IN IF miss # "" THEN [res |-> Raise("KeyError"), f |-> f]
       ELSE Let(read(f, xs * ys * zs * 3 * chunk_size), LAMBDA rd :
            Let(np_ndarray(<<xs * ys * zs, 3>>, dtype, rd.bytes,
                           <<3 * chunk_size, chunk_size>>), LAMBDA ret :
                IF ~ret.ok THEN [res |-> ret, f |-> rd.f]
                ELSE [res |-> reshape(ret.val, <<xs, ys, zs, 3>>), f |-> rd.f]))

\* _fast_binary_decode(f, chunk_size, headers, dtype)
_fast_binary_decode(f, chunk_size, headers, dtype) ==
    LET miss == MissingKey(headers, <<"xnodes", "ynodes", "znodes">>)
        xs == FloatToInt(headers["xnodes"])
        ys == FloatToInt(headers["ynodes"])
        zs == FloatToInt(headers["znodes"])
    IN IF miss # "" THEN [res |-> Raise("KeyError"), f |-> f]
       ELSE Let(read(f, xs * ys * zs * 3 * chunk_size), LAMBDA rd :
            Let(np_ndarray(<<xs * ys * zs, 3>>, dtype, rd.bytes,
                           <<3 * chunk_size, chunk_size>>), LAMBDA ret :
                IF ~ret.ok THEN [res |-> ret, f |-> rd.f]
                ELSE [res |-> reshape(ret.val, <<zs, ys, xs, 3>>), f |-> rd.f]))

\* _fast_binary_decode_scalars reading its values at the stride of a
\* three-component payload.
_fast_binary_decode_scalars_strided(f, chunk_size, headers, dtype) ==
    LET miss == MissingKey(headers, <<"xnodes", "ynodes", "znodes">>)
        xs == FloatToInt(headers["xnodes"])
        ys == FloatToInt(headers["ynodes"])
        zs == FloatToInt(headers["znodes"])
    IN IF miss # "" THEN [res |-> Raise("KeyError"), f |-> f]
       ELSE Let(read(f, xs * ys * zs * 3 * chunk_size), LAMBDA rd :
            Let(np_ndarray(<<xs * ys * zs, 1>>, dtype, rd.bytes,
                           <<3 * chunk_size, chunk_size>>), LAMBDA ret :
                IF ~ret.ok THEN [res |-> ret, f |-> rd.f]
                ELSE [res |-> reshape(ret.val, <<zs, ys, xs>>), f |-> rd.f]))

\* _fast_binary_decode_scalars(f, chunk_size, headers, dtype)
_fast_binary_decode_scalars(f, chunk_size, headers, dtype) ==
    LET miss == MissingKey(headers, <<"xnodes", "ynodes", "znodes">>)
        xs == FloatToInt(headers["xnodes"])
        ys == FloatToInt(headers["ynodes"])
        zs == FloatToInt(headers["znodes"])
    IN IF miss # "" THEN [res |-> Raise("KeyError"), f |-> f]
       ELSE Let(read(f, xs * ys * zs * chunk_size), LAMBDA rd :
            Let(np_ndarray(<<xs * ys * zs, 1>>, dtype, rd.bytes,
                           <<chunk_size, chunk_size>>), LAMBDA ret :
                IF ~ret.ok THEN [res |-> ret, f |-> rd.f]
                ELSE [res |-> reshape(ret.val, <<zs, ys, xs>>), f |-> rd.f]))

\* ------------------------------------------------------------------------
\* pathlib, sorted, np.array
\* ------------------------------------------------------------------------

\* A path is the sequence of its components, each a sequence of bytes.

\* ioutil.pathize(path): the path as a pathlib.Path.
pathize(path) == path

\* path.suffix: the last component from its last dot, '' when it has no dot
\* after its first character or ends with the dot.
suffix(path) ==
    LET name == path[Len(path)]
        dots == {i \in 1..Len(name) : name[i] = 46}
        i == CHOOSE d \in dots : \A e \in dots : e <= d
    IN IF dots = {} THEN <<>>
       ELSE IF i = 1 \/ i = Len(name) THEN <<>>
       ELSE SubSeq(name, i, Len(name))

\* path.parent
parent(path) == SubSeq(path, 1, Len(path) - 1)

\* fnmatch of a name against 'm*.ovf'
matches_m_star_ovf(name) ==
    /\ Len(name) >= 5
    /\ name[1] = 109
    /\ SubSeq(name, Len(name) - 3, Len(name)) = s_dot_ovf

\* a < b on str, by code point
StrLess(a, b) ==
    LET n == IF Len(a) < Len(b) THEN Len(a) ELSE Len(b)
        diff == {i \in 1..n : a[i] # b[i]}
    IN IF diff = {} THEN Len(a) < Len(b) ELSE a[Min(diff)] < b[Min(diff)]

\* p < q on paths: their component lists compared.
PathLess(p, q) ==
    LET n == IF Len(p) < Len(q) THEN Len(p) ELSE Len(q)
        diff == {i \in 1..n : p[i] # q[i]}
    IN IF diff = {} THEN Len(p) < Len(q) ELSE StrLess(p[Min(diff)], q[Min(diff)])

\* sorted(paths): a stable insertion sort.
RECURSIVE sorted(_)
sorted(paths) ==
    IF paths = <<>> THEN <<>>
    ELSE LET rest == sorted(SubSeq(paths, 1, Len(paths) - 1))
             x == paths[Len(paths)]
             before == {i \in 1..Len(rest) : ~PathLess(x, rest[i])}
             n == Cardinality(before)
         IN SubSeq(rest, 1, n) \o <<x>> \o SubSeq(rest, n + 1, Len(rest))

\* The sequences of a list, joined.
Concat(seqs) ==
    LET C[i \in Nat] == IF i = 0 THEN <<>> ELSE C[i - 1] \o seqs[i]
    IN C[Len(seqs)]

\* np.array(items) of a list of arrays and Nones: the set of results the
\* installed numpy may give.  Arrays of one shape are stacked along a new
\* leading axis; an empty list gives an array of shape (0,); a list of Nones
\* gives an object array; a list mixing shapes, or arrays with None, is an
\* object array of its items in numpy < 1.24 and a ValueError from 1.24 on.
np_array(items) ==
    LET n == Len(items)
        arrays == {i \in 1..n : items[i].kind = "ndarray"}
        oneshape == \A i, j \in arrays : items[i].shape = items[j].shape
        object == [kind |-> "ndarray", shape |-> <<n>>, flat |-> items]
    IN IF n = 0 THEN {Ok([kind |-> "ndarray", shape |-> <<0>>, flat |-> <<>>])}
       ELSE IF arrays = {} THEN {Ok(object)}
       ELSE IF arrays = 1..n /\ oneshape
            THEN {Ok([kind |-> "ndarray", shape |-> <<n>> \o items[1].shape,
                      flat |-> Concat([i \in 1..n |-> items[i].flat])])}
       ELSE {Ok(object), Raise("ValueError")}

\* ------------------------------------------------------------------------
\* The files on disk: OVF files as the simulator writes them, and damaged ones
\* ------------------------------------------------------------------------

l_title == <<35, 32, 79, 79, 77, 77, 70, 32, 79, 86, 70, 32, 50, 46, 48>>   \* "# OOMMF OVF 2.0"
l_desc_time == <<35, 32, 68, 101, 115, 99, 58, 32, 84, 111, 116, 97, 108, 32, 115, 105, 109, 117, 108, 97, 116, 105, 111, 110, 32, 116, 105, 109, 101, 58, 32, 32, 48, 46, 53, 32, 32, 115>>   \* "# Desc: Total simulation time:  0.5  s"
l_xnodes == <<35, 32, 120, 110, 111, 100, 101, 115, 58, 32>>   \* "# xnodes: "
l_ynodes == <<35, 32, 121, 110, 111, 100, 101, 115, 58, 32>>   \* "# ynodes: "
l_znodes == <<35, 32, 122, 110, 111, 100, 101, 115, 58, 32>>   \* "# znodes: "
l_valuemultiplier == <<35, 32, 118, 97, 108, 117, 101, 109, 117, 108, 116, 105, 112, 108, 105, 101, 114, 58, 32>>   \* "# valuemultiplier: "
l_begin_data == <<35, 32, 66, 101, 103, 105, 110, 58, 32, 68, 97, 116, 97, 32>>   \* "# Begin: Data "
l_end_data == <<35, 32, 69, 110, 100, 58, 32, 68, 97, 116, 97, 32>>   \* "# End: Data "
t_Text == <<84, 101, 120, 116>>   \* "Text"
t_Binary4 == <<66, 105, 110, 97, 114, 121, 32, 52>>   \* "Binary 4"
t_Binary8 == <<66, 105, 110, 97, 114, 121, 32, 56>>   \* "Binary 8"
t_Hex == <<72, 101, 120>>   \* "Hex"
t_abc == <<97, 98, 99>>   \* "abc"
t_2 == <<50>>   \* "2"
t_0_5 == <<48, 46, 53>>   \* "0.5"
n_m000000 == <<109, 48, 48, 48, 48, 48, 48, 46, 111, 118, 102>>   \* "m000000.ovf"
n_m000001 == <<109, 48, 48, 48, 48, 48, 49, 46, 111, 118, 102>>   \* "m000001.ovf"
n_table == <<116, 97, 98, 108, 101, 46, 116, 120, 116>>   \* "table.txt"
d_sim_out == <<115, 105, 109, 46, 111, 117, 116>>   \* "sim.out"
d_sim == <<115, 105, 109>>   \* "sim"

\* The control marks as written most significant byte first.
Mark4 == <<73, 150, 180, 56>>                       \* 1234567.0 as binary32
Mark8 == <<66, 220, 18, 33, 131, 119, 222, 64>>     \* 123456789012345.0 as binary64

RECURSIVE DecStr(_)
DecStr(n) == IF n < 10 THEN <<48 + n>> ELSE DecStr(n \div 10) \o <<48 + (n % 10)>>

RECURSIVE Log2(_)
Log2(n) == IF n < 2 THEN 0 ELSE 1 + Log2(n \div 2)

\* The w bytes of the positive integer n as a binary32 / binary64 number,
\* in the byte order asked for.
pack(w, big, n) ==
    LET e == Log2(n)
        biased == (IF w = 4 THEN 127 ELSE 1023) + e
        ftop == (n - 2 ^ e) * (2 ^ ((IF w = 4 THEN 23 ELSE 20) - e))
        msb == IF w = 4
               THEN << biased \div 2, (biased % 2) * 128 + ftop \div 65536,
                       (ftop \div 256) % 256, ftop % 256 >>
               ELSE << biased \div 16, (biased % 16) * 16 + ftop \div 65536,
                       (ftop \div 256) % 256, ftop % 256, 0, 0, 0, 0 >>
    IN IF big THEN msb ELSE Reverse(msb)

\* The value stored at position p (from 0) of every payload: p + 1.
Stored(p) == p + 1

Nodes == 1..MaxNodes

\* What a file holds: its geometry, its data-type token, the width and byte
\* order of a binary payload, the valuemultiplier line ("" for none), the
\* values per cell and what is wrong with it.
Meta(nx, ny, nz, enc, w, big, vm, comps, defect) ==
    [nx |-> nx, ny |-> ny, nz |-> nz, enc |-> enc, w |-> w, big |-> big,
     vm |-> vm, comps |-> comps, defect |-> defect]

Multipliers == {"", "2", "0.5"}

GoodMetas ==
    {Meta(nx, ny, nz, "Text", 0, FALSE, vm, 3, "none") :
        nx \in Nodes, ny \in Nodes, nz \in Nodes, vm \in Multipliers}
    \cup
    {Meta(g[1], g[2], g[3], "Binary", w, big, vm, comps, "none") :
        g \in Nodes \X Nodes \X Nodes, w \in {4, 8}, big \in BOOLEAN,
        vm \in Multipliers, comps \in {1, 3}}

DamagedMetas ==
    {Meta(nx, ny, nz, "Text", 0, FALSE, "", 3, d) :
        nx \in Nodes, ny \in Nodes, nz \in Nodes,
        d \in {"nomarker", "shortdata", "tokens2", "tokens4", "nonnumeric"}}
    \cup
    {Meta(nx, ny, nz, "Binary", w, TRUE, "", 3, d) :
        nx \in Nodes, ny \in Nodes, nz \in Nodes, w \in {4, 8},
        d \in {"badmark", "shortdata"}}
    \cup
    {Meta(nx, ny, nz, "Hex", 0, FALSE, "", 3, "none") :
        nx \in Nodes, ny \in Nodes, nz \in Nodes}

Ln(s) == s \o <<10>>

VmBytes(vm) == IF vm = "2" THEN t_2 ELSE t_0_5

TypeTokens(m) ==
    IF m.enc = "Text" THEN t_Text
    ELSE IF m.enc = "Hex" THEN t_Hex
    ELSE IF m.w = 4 THEN t_Binary4 ELSE t_Binary8

HeaderBytes(m) ==
    Ln(l_title) \o Ln(l_desc_time)
    \o Ln(l_xnodes \o DecStr(m.nx)) \o Ln(l_ynodes \o DecStr(m.ny))
    \o Ln(l_znodes \o DecStr(m.nz))
    \o (IF m.vm = "" THEN <<>> ELSE Ln(l_valuemultiplier \o VmBytes(m.vm)))
    \o (IF m.defect = "nomarker" THEN <<>> ELSE Ln(l_begin_data \o TypeTokens(m)))

Cells(m) == m.nx * m.ny * m.nz

\* The text line of cell r (from 0): its three values, and for the last cell
\* of a damaged file one value fewer, one more, or a word for the third.
TextLine(m, r) ==
    LET last == r = Cells(m) - 1
        v(c) == DecStr(Stored(3 * r + c))
    IN IF last /\ m.defect = "tokens2" THEN Ln(v(0) \o <<32>> \o v(1))
       ELSE IF last /\ m.defect = "tokens4"
            THEN Ln(v(0) \o <<32>> \o v(1) \o <<32>> \o v(2) \o <<32>> \o v(0))
       ELSE IF last /\ m.defect = "nonnumeric" THEN Ln(v(0) \o <<32>> \o v(1) \o <<32>> \o t_abc)
       ELSE Ln(v(0) \o <<32>> \o v(1) \o <<32>> \o v(2))

PayloadBytes(m) ==
    LET n == IF m.enc = "Text" THEN Cells(m) ELSE Cells(m) * m.comps
        kept == IF m.defect = "shortdata" THEN n - 1 ELSE n
        mark == IF m.defect = "badmark" THEN [i \in 1..m.w |-> 0]
                ELSE IF m.big THEN (IF m.w = 4 THEN Mark4 ELSE Mark8)
                ELSE Reverse(IF m.w = 4 THEN Mark4 ELSE Mark8)
        body == IF m.enc = "Text"
                THEN Concat([r \in 1..kept |-> TextLine(m, r - 1)])
                ELSE mark \o Concat([p \in 1..kept |-> pack(m.w, m.big, Stored(p - 1))])
    IN IF m.defect = "nomarker" \/ m.enc = "Hex" THEN <<>>
       ELSE IF m.defect = "shortdata" THEN body
       ELSE body \o Ln(l_end_data \o TypeTokens(m))

FileBytes(m) == HeaderBytes(m) \o PayloadBytes(m)

Entry(name, m) == [name |-> name, data |-> FileBytes(m), meta |-> m]

\* A directory holding one file, of any kind.
SingleFileDirs ==
    {[dir |-> d_sim_out, entries |-> <<Entry(n_m000000, m)>>] :
        m \in GoodMetas \cup DamagedMetas}

\* The files of a group: two that decode to different arrays, one whose
\* control mark is wrong, one of an unknown data type; and a table that is
\* no OVF file.
GroupMetas ==
    { Meta(2, 1, 1, "Binary", 4, FALSE, "", 3, "none"),
      Meta(2, 1, 1, "Text", 0, FALSE, "2", 3, "none"),
      Meta(2, 1, 1, "Binary", 4, TRUE, "", 3, "badmark"),
      Meta(2, 1, 1, "Hex", 0, FALSE, "", 3, "none") }

TableMeta == Meta(1, 1, 1, "Text", 0, FALSE, "", 3, "nomarker")

GroupNames == {n_m000000, n_m000001, n_table}

\* The directory listings: up to MaxFiles distinct names, in any order.
NameSeqs ==
    UNION { {ns \in [1..k -> GroupNames] : \A i, j \in 1..k : ns[i] = ns[j] => i = j} :
            k \in 0..MaxFiles }

GroupDirs ==
    UNION { { [dir |-> d, entries |-> [i \in 1..Len(ns) |-> Entry(ns[i], ms[i])]] :
                d \in {d_sim_out, d_sim},
                ms \in {x \in [1..Len(ns) -> GroupMetas \cup {TableMeta}] :
                          \A i \in 1..Len(ns) : (ns[i] = n_table) <=> (x[i] = TableMeta)} } :
            ns \in NameSeqs }

FileSystems == SingleFileDirs \cup GroupDirs

\* ------------------------------------------------------------------------
\* The program
\* ------------------------------------------------------------------------

VARIABLES
    fs,          \* the directory on disk: its name and its entries, in listing order
    pc,          \* where the call in progress stands
    op,          \* the function called: unpack, unpack_scalars or group_unpack
    arg,         \* its path argument
    fn,          \* the single-file function running: unpack or unpack_scalars
    f,           \* its open file
    line,        \* _read_header: line
    headers,     \* _read_header: headers
    chunk_size,  \* unpack / unpack_scalars: chunk_size
    dtype,       \* the value of _endianness(f, chunk_size)
    files,       \* group_unpack: files
    idx,         \* group_unpack: how many of the files have been handed to unpack
    acc,         \* group_unpack: the list built by the comprehension
    result       \* what the call returned or raised

vars == <<fs, pc, op, arg, fn, f, line, headers, chunk_size, dtype, files, idx, acc, result>>

NoFile == [data |-> <<>>, pos |-> 0]
NoResult == [ok |-> FALSE, exc |-> ""]

Init ==
    /\ fs \in FileSystems
    /\ pc = "idle"
    /\ op = ""
    /\ arg = <<>>
    /\ fn = ""
    /\ f = NoFile
    /\ line = <<>>
    /\ headers = InitialHeaders
    /\ chunk_size = 0
    /\ dtype = ""
    /\ files = <<>>
    /\ idx = 0
    /\ acc = <<>>
    /\ result = NoResult

is_dir(path) == path = <<fs.dir>>

is_file(path) ==
    /\ Len(path) = 2
    /\ path[1] = fs.dir
    /\ \E i \in 1..Len(fs.entries) : fs.entries[i].name = path[2]

EntryOf(path) ==
    fs.entries[CHOOSE i \in 1..Len(fs.entries) : fs.entries[i].name = path[2]]

\* The paths a caller passes: the directory and the files in it.
Paths == {<<fs.dir>>} \cup {<<fs.dir, fs.entries[i].name>> : i \in 1..Len(fs.entries)}

\* path.glob('m*.ovf'): the matching entries of a directory, in listing
\* order; nothing when the path is no directory.
glob(path) ==
    LET RECURSIVE G(_)
        G(i) == IF i > Len(fs.entries) THEN <<>>
                ELSE (IF matches_m_star_ovf(fs.entries[i].name)
                      THEN <<path \o <<fs.entries[i].name>>>> ELSE <<>>) \o G(i + 1)
    IN IF is_dir(path) THEN G(1) ELSE <<>>

\* path.open('rb')
path_open(path) ==
    IF is_dir(path) THEN Raise("IsADirectoryError")
    ELSE IF ~is_file(path) THEN Raise("FileNotFoundError")
    ELSE Ok(open(EntryOf(path).data))

\* unpack / unpack_scalars leaves with a value or an exception (the with
\* block closes the file): the top-level call is over, or the value joins
\* the list of group_unpack's comprehension and an exception leaves
\* group_unpack too.
Leave(r) ==
    IF op = "group_unpack" /\ r.ok
    THEN /\ acc' = Append(acc, r.val)
         /\ pc' = "group_loop"
         /\ result' = result
    ELSE /\ acc' = acc
         /\ pc' = "done"
         /\ result' = r

\* with path.open('rb') as f: headers = _read_header(f) ...
Enter(which, path) ==
    \E o \in {path_open(path)} :
       /\ fn' = which
       /\ line' = <<>>
       /\ headers' = InitialHeaders
       /\ chunk_size' = 0
       /\ dtype' = ""
       /\ IF o.ok
          THEN /\ f' = o.val
               /\ pc' = "read_header"
               /\ acc' = acc
               /\ result' = result
          ELSE /\ f' = NoFile
               /\ Leave(Raise(o.exc))

\* unpack(path) is called.
Unpack(path) ==
    /\ pc = "idle"
    /\ op' = "unpack"
    /\ arg' = path
    /\ Enter("unpack", pathize(path))
    /\ UNCHANGED <<fs, files, idx>>

\* unpack_scalars(path) is called.
UnpackScalars(path) ==
    /\ pc = "idle"
    /\ op' = "unpack_scalars"
    /\ arg' = path
    /\ Enter("unpack_scalars", pathize(path))
    /\ UNCHANGED <<fs, files, idx>>

\* _read_header: one iteration of the while loop.
ReadHeaderLine ==
    /\ pc = "read_header"
    /\ read_header_looping(line)
    /\ \E b \in {read_header_body(f, headers)} :
          /\ f' = b.f
          /\ line' = b.line
          /\ IF b.res.ok
             THEN /\ headers' = b.res.val
                  /\ UNCHANGED <<pc, acc, result>>
             ELSE /\ headers' = headers
                  /\ Leave(b.res)
    /\ UNCHANGED <<fs, op, arg, fn, chunk_size, dtype, files, idx>>

\* _read_header: the loop is over, the marker line is kept and the headers returned.
ReadHeaderReturn ==
    /\ pc = "read_header"
    /\ ~read_header_looping(line)
    /\ headers' = read_header_return(line, headers)
    /\ pc' = "dispatch"
    /\ UNCHANGED <<fs, op, arg, fn, f, line, chunk_size, dtype, files, idx, acc, result>>

\* int(headers['data_type'][4]) of a Binary marker line.
ChunkSize(h) ==
    IF Len(h["data_type"]) < 5 THEN Raise("IndexError")
    ELSE int(StrWS, h["data_type"][5])

\* unpack: the if / elif on headers['data_type'][3]; with neither branch
\* taken the function ends and returns None.
UnpackDispatch ==
    /\ pc = "dispatch"
    /\ fn = "unpack"
    /\ LET dt == headers["data_type"]
           cs == ChunkSize(headers)
       IN IF Len(dt) < 4 THEN Leave(Raise("IndexError")) /\ chunk_size' = chunk_size
          ELSE IF dt[4] = s_Text
               THEN pc' = "text_decode" /\ UNCHANGED <<chunk_size, acc, result>>
          ELSE IF dt[4] = s_Binary
               THEN IF cs.ok
                    THEN pc' = "endianness" /\ chunk_size' = cs.val /\ UNCHANGED <<acc, result>>
                    ELSE Leave(cs) /\ chunk_size' = chunk_size
          ELSE Leave(Ok(None)) /\ chunk_size' = chunk_size
    /\ UNCHANGED <<fs, op, arg, fn, f, line, headers, dtype, files, idx>>

\* unpack_scalars: the if / else on headers['data_type'][3].
UnpackScalarsDispatch ==
    /\ pc = "dispatch"
    /\ fn = "unpack_scalars"
    /\ LET dt == headers["data_type"]
           cs == ChunkSize(headers)
       IN IF Len(dt) < 4 THEN Leave(Raise("IndexError")) /\ chunk_size' = chunk_size
          ELSE IF dt[4] = s_Binary
               THEN IF cs.ok
                    THEN pc' = "endianness" /\ chunk_size' = cs.val /\ UNCHANGED <<acc, result>>
                    ELSE Leave(cs) /\ chunk_size' = chunk_size
          ELSE Leave(Raise("NotImplementedError")) /\ chunk_size' = chunk_size
    /\ UNCHANGED <<fs, op, arg, fn, f, line, headers, dtype, files, idx>>

\* The argument _endianness(f, chunk_size) is evaluated, before the decoder is called.
Endianness ==
    /\ pc = "endianness"
    /\ \E e \in {_endianness(f, chunk_size)} :
          /\ f' = e.f
          /\ IF e.res.ok
             THEN dtype' = e.res.val /\ pc' = "binary_decode" /\ UNCHANGED <<acc, result>>
             ELSE dtype' = dtype /\ Leave(e.res)
    /\ UNCHANGED <<fs, op, arg, fn, line, headers, chunk_size, files, idx>>

\* return _fast_binary_decode(f, chunk_size, headers, dtype)
BinaryDecode ==
    /\ pc = "binary_decode"
    /\ fn = "unpack"
    /\ \E r \in {_fast_binary_decode(f, chunk_size, headers, dtype)} :
          f' = r.f /\ Leave(r.res)
    /\ UNCHANGED <<fs, op, arg, fn, line, headers, chunk_size, dtype, files, idx>>

\* return _fast_binary_decode_scalars(f, chunk_size, headers, dtype)
ScalarDecode ==
    /\ pc = "binary_decode"
    /\ fn = "unpack_scalars"
    /\ \E r \in {_fast_binary_decode_scalars(f, chunk_size, headers, dtype)} :
          f' = r.f /\ Leave(r.res)
    /\ UNCHANGED <<fs, op, arg, fn, line, headers, chunk_size, dtype, files, idx>>

\* return _text_decode(f, headers)
TextDecode ==
    /\ pc = "text_decode"
    /\ \E r \in {_text_decode(f, headers)} :
          f' = r.f /\ Leave(r.res)
    /\ UNCHANGED <<fs, op, arg, fn, line, headers, chunk_size, dtype, files, idx>>

\* group_unpack taking the files in the order the directory lists them.
group_files_unsorted(path) ==
    IF suffix(path) = s_dot_out THEN Ok(glob(path))
    ELSE IF suffix(path) = s_dot_ovf THEN Ok(glob(parent(path)))
    ELSE Raise("UnboundLocalError")

\* group_unpack(path): files is bound on the .out and the .ovf branch only;
\* with neither suffix the comprehension reads an unbound local.
group_files(path) ==
    IF suffix(path) = s_dot_out THEN Ok(sorted(glob(path)))
    ELSE IF suffix(path) = s_dot_ovf THEN Ok(sorted(glob(parent(path))))
    ELSE Raise("UnboundLocalError")

\* group_unpack(path) is called.
GroupUnpack(path) ==
    /\ pc = "idle"
    /\ op' = "group_unpack"
    /\ arg' = path
    /\ \E fl \in {group_files(pathize(path))} :
          IF fl.ok
          THEN files' = fl.val /\ pc' = "group_loop" /\ result' = result
          ELSE files' = files /\ pc' = "done" /\ result' = fl
    /\ UNCHANGED <<fs, fn, f, line, headers, chunk_size, dtype, idx, acc>>

\* The comprehension hands the next file to unpack.
GroupNextFile ==
    /\ pc = "group_loop"
    /\ idx < Len(files)
    /\ idx' = idx + 1
    /\ Enter("unpack", pathize(files[idx + 1]))
    /\ UNCHANGED <<fs, op, arg, files>>

\* The comprehension is over: return np.array([...]).
GroupReturn ==
    /\ pc = "group_loop"
    /\ idx = Len(files)
    /\ \E r \in np_array(acc) : result' = r
    /\ pc' = "done"
    /\ UNCHANGED <<fs, op, arg, fn, f, line, headers, chunk_size, dtype, files, idx, acc>>

Next ==
    \/ \E path \in Paths : Unpack(path)
    \/ \E path \in Paths : UnpackScalars(path)
    \/ \E path \in Paths : GroupUnpack(path)
    \/ ReadHeaderLine
    \/ ReadHeaderReturn
    \/ UnpackDispatch
    \/ UnpackScalarsDispatch
    \/ Endianness
    \/ BinaryDecode
    \/ ScalarDecode
    \/ TextDecode
    \/ GroupNextFile
    \/ GroupReturn

Spec == Init /\ [][Next]_vars

\* ------------------------------------------------------------------------
\* What the claims speak of
\* ------------------------------------------------------------------------

\* The file the single-file function at work was given, and what it holds.
CurPath == IF op = "group_unpack" THEN files[idx] ELSE arg
CurMeta == EntryOf(CurPath).meta

\* A top-level call of o on a file is over.
FileCallDone(o) == pc = "done" /\ op = o /\ is_file(arg)

ReturnedArray == result.ok /\ result.val.kind = "ndarray"

\* The factor a valuemultiplier line states, 1.0 without the line.
Factor(m) ==
    IF m.vm = "" THEN Rat(1, 1) ELSE IF m.vm = "2" THEN Rat(2, 1) ELSE Rat(1, 2)

\* The three-component files without damage, of a binary or of any encoding.
GoodVector(m) == m.defect = "none" /\ m.comps = 3 /\ m.enc \in {"Text", "Binary"}
GoodBinaryVector(m) == GoodVector(m) /\ m.enc = "Binary"
GoodScalar(m) == m.defect = "none" /\ m.comps = 1 /\ m.enc = "Binary"

\* C1: on every decode path (unpack of a Binary file, unpack of a Text file,
\* unpack_scalars of a Binary file) each element of the returned array is
\* the stored value times the header's valuemultiplier, and the stored value
\* itself when the header has no valuemultiplier line.
C1_ScaledByValuemultiplier ==
    \A o \in {"unpack", "unpack_scalars"} :
        ( /\ FileCallDone(o)
          /\ IF o = "unpack" THEN GoodVector(EntryOf(arg).meta)
                             ELSE GoodScalar(EntryOf(arg).meta) )
        => /\ ReturnedArray
           /\ \A p \in 1..Len(result.val.flat) :
                 result.val.flat[p]
                     = FMul(Rat(Stored(p - 1), 1), Factor(EntryOf(arg).meta))

\* C2: unpack of a binary vector file of geometry (nx, ny, nz) returns an
\* array of shape (nz, ny, nx, 3) whose element [k][j][i][c] is the payload
\* value at flat position ((k*ny + j)*nx + i)*3 + c.
C2_BinaryLayout ==
    (FileCallDone("unpack") /\ GoodBinaryVector(EntryOf(arg).meta))
    => LET m == EntryOf(arg).meta
       IN /\ ReturnedArray
          /\ result.val.shape = <<m.nz, m.ny, m.nx, 3>>
          /\ \A k \in 0..(m.nz - 1), j \in 0..(m.ny - 1), i \in 0..(m.nx - 1), c \in 0..2 :
                Elem(result.val, <<k, j, i, c>>)
                    = Rat(Stored(((k * m.ny + j) * m.nx + i) * 3 + c), 1)

\* A 2 x 2 x 2 binary vector file has been unpacked.
C2_Witness ==
    /\ FileCallDone("unpack")
    /\ GoodBinaryVector(EntryOf(arg).meta)
    /\ EntryOf(arg).meta.nx = 2 /\ EntryOf(arg).meta.ny = 2 /\ EntryOf(arg).meta.nz = 2
    /\ ReturnedArray

\* The control mark of width w as it stands in a file, in either byte order.
MarkBE(w) == IF w = 4 THEN Mark4 ELSE Mark8
MarkLE(w) == Reverse(MarkBE(w))

\* C3: _endianness reads exactly w bytes (w in {4, 8}) and returns the
\* big-endian format when they are the big-endian encoding of the magic
\* constant and the little-endian format when they are its little-endian
\* encoding; the payload is then decoded in the byte order returned.
C3_EndiannessDetected ==
    /\ pc = "binary_decode"
       => LET w == chunk_size
              mark == SubSeq(f.data, f.pos - w + 1, f.pos)
          IN /\ w \in {4, 8}
             /\ f.pos = Len(HeaderBytes(CurMeta)) + w
             /\ mark \in {MarkBE(w), MarkLE(w)}
             /\ mark = MarkBE(w) => dtype = (IF w = 4 THEN ">f" ELSE ">d")
             /\ mark = MarkLE(w) => dtype = (IF w = 4 THEN "<f" ELSE "<d")
    /\ \A o \in {"unpack", "unpack_scalars"} :
          ( /\ FileCallDone(o)
            /\ IF o = "unpack" THEN GoodBinaryVector(EntryOf(arg).meta)
                               ELSE GoodScalar(EntryOf(arg).meta) )
          => /\ ReturnedArray
             /\ fmt_big(dtype) = EntryOf(arg).meta.big
             /\ \A p \in 1..Len(result.val.flat) :
                   result.val.flat[p] = Rat(Stored(p - 1), 1)

\* The little-endian mark of an 8-byte file has been read and recognised.
C3_Witness ==
    /\ pc = "binary_decode"
    /\ chunk_size = 8
    /\ SubSeq(f.data, f.pos - 7, f.pos) = MarkLE(8)
    /\ dtype = "<d"

\* C4: when the control mark matches the magic constant in neither byte
\* order, _endianness fails with the IOError built at that branch, and no
\* array is returned.
C4_ByteOrderError ==
    \A o \in {"unpack", "unpack_scalars"} :
        (FileCallDone(o) /\ EntryOf(arg).meta.defect = "badmark")
        => result = Raise("IOError")

\* C5: when the stream is at its end before any line containing
\* "Begin: Data" was read, the next step of _read_header ends the call with
\* an error; the reader does not stay in its loop.
C5_TruncatedHeaderIsFatal ==
    [][ (pc = "read_header" /\ read_header_looping(line) /\ f.pos = Len(f.data))
        => (pc' = "done" /\ ~result'.ok /\ result'.exc # "") ]_vars

\* C6: when no file of the directory matches the pattern, group_unpack
\* fails; it never returns a series.
C6_EmptyGroupIsFatal ==
    ( /\ pc = "done"
      /\ op = "group_unpack"
      /\ group_files(arg).ok
      /\ group_files(arg).val = <<>> )
    => ~result.ok

\* The entries group_unpack is to decode: those named m000000.ovf and
\* m000001.ovf, in the order of their names.
GroupMembers ==
    LET at(n) == {i \in 1..Len(fs.entries) : fs.entries[i].name = n}
        one(n) == IF at(n) = {} THEN <<>> ELSE <<fs.entries[Min(at(n))].meta>>
    IN one(n_m000000) \o one(n_m000001)

\* The files unpack decodes and the files it fails on.
Decodes(m) == GoodVector(m)
Fails(m) == m.defect \in {"badmark", "shortdata", "tokens2", "nonnumeric"}

\* What unpack returns for a file it decodes: the stored values, of a Text
\* file times its valuemultiplier.
Decoded(m) ==
    [p \in 1..(3 * Cells(m)) |->
        FMul(Rat(Stored(p - 1), 1), IF m.enc = "Text" THEN Factor(m) ELSE Rat(1, 1))]

GroupCallDone == pc = "done" /\ op = "group_unpack" /\ result # Raise("UnboundLocalError")

TextTwin(m) == [m EXCEPT !.enc = "Text", !.w = 0, !.big = FALSE]

\* C8: unpack of the Binary encoding and unpack of the Text encoding of the
\* same header and values return arrays of the same shape and elements: the
\* array unpack returned for a binary vector file is the one the text
\* decoder gives on the text payload of the same header and values.
C8_TextAndBinaryAgree ==
    (FileCallDone("unpack") /\ GoodBinaryVector(EntryOf(arg).meta))
    => LET tm == TextTwin(EntryOf(arg).meta)
           td == _text_decode([data |-> FileBytes(tm), pos |-> Len(HeaderBytes(tm))], headers)
       IN /\ ReturnedArray
          /\ td.res.ok
          /\ result.val.shape = td.res.val.shape
          /\ result.val.flat = td.res.val.flat

\* C9: text decode reads exactly xnodes*ynodes*znodes payload lines, and a
\* payload line with fewer or more than three tokens, or with a token that
\* is no number, makes the decode of the file fail.
C9_MalformedTextLineIsFatal ==
    (FileCallDone("unpack") /\ EntryOf(arg).meta.enc = "Text")
    => LET m == EntryOf(arg).meta
       IN /\ m.defect = "none"
             => /\ ReturnedArray
                /\ f.pos = Len(FileBytes(m)) - Len(Ln(l_end_data \o TypeTokens(m)))
          /\ m.defect \in {"tokens2", "tokens4", "nonnumeric"} => ~result.ok

\* C10: when the data-type token of the marker line is neither "Text" nor
\* "Binary", unpack fails; it does not return normally.
C10_UnknownDataTypeIsFatal ==
    (FileCallDone("unpack") /\ EntryOf(arg).meta.enc = "Hex") => ~result.ok

\* The three-component file of the header of the one-component file m in
\* which component c of every cell is the value m holds for the cell, byte
\* for byte, and the other two components are the control mark.
VectorTwin(m, c) ==
    LET h == Len(HeaderBytes(m))
        d == FileBytes(m)
        mark == SubSeq(d, h + 1, h + m.w)
        val(r) == SubSeq(d, h + m.w + (r - 1) * m.w + 1, h + m.w + r * m.w)
        cell(r) == Concat([x \in 1..3 |-> IF x = c + 1 THEN val(r) ELSE mark])
    IN HeaderBytes(m) \o mark \o Concat([r \in 1..Cells(m) |-> cell(r)])
       \o Ln(l_end_data \o TypeTokens(m))

\* C11: unpack_scalars of a binary file of one value per cell returns an
\* array of shape (nz, ny, nx) whose element [k][j][i] is component c of
\* element [k][j][i] of the vector decode of the payload whose component c
\* holds the same values, for c = 0, 1, 2; and the scalar decoder runs in
\* unpack_scalars only: whatever the header, unpack and group_unpack run
\* the vector decoder and an array unpack returns has a last axis of 3.
C11_ScalarIsVectorComponent ==
    /\ (FileCallDone("unpack_scalars") /\ GoodScalar(EntryOf(arg).meta))
       => LET m == EntryOf(arg).meta
          IN /\ ReturnedArray
             /\ result.val.shape = <<m.nz, m.ny, m.nx>>
             /\ \A c \in 0..2 :
                   \E vd \in {_fast_binary_decode(
                                 [data |-> VectorTwin(m, c), pos |-> Len(HeaderBytes(m)) + m.w],
                                 chunk_size, headers, dtype)} :
                      /\ vd.res.ok
                      /\ vd.res.val.shape = <<m.nz, m.ny, m.nx, 3>>
                      /\ \A k \in 0..(m.nz - 1), j \in 0..(m.ny - 1), i \in 0..(m.nx - 1) :
                            Elem(result.val, <<k, j, i>>) = Elem(vd.res.val, <<k, j, i, c>>)
    /\ pc = "binary_decode" => (fn = "unpack_scalars" <=> op = "unpack_scalars")
    /\ (pc = "done" /\ op = "unpack" /\ ReturnedArray)
       => (Len(result.val.shape) = 4 /\ result.val.shape[4] = 3)
    /\ \A t \in 1..Len(acc) :
          acc[t].kind = "ndarray" => (Len(acc[t].shape) = 4 /\ acc[t].shape[4] = 3)

\* unpack_scalars has decoded a 2 x 1 x 2 file of 8-byte values.
C11_Witness ==
    /\ FileCallDone("unpack_scalars")
    /\ GoodScalar(EntryOf(arg).meta)
    /\ EntryOf(arg).meta.nx = 2 /\ EntryOf(arg).meta.ny = 1 /\ EntryOf(arg).meta.nz = 2
    /\ EntryOf(arg).meta.w = 8
    /\ ReturnedArray

\* C12: group_unpack given any directory enumerates the matching files of
\* that directory, and given a representative file (one matching the
\* pattern) those of the file's parent directory; either way it goes on with
\* them sorted: files is the sorted list of the directory's matching files
\* and the call does not end before the first of them is decoded.
C12_DirectoryOrRepresentative ==
    ( /\ pc # "idle"
      /\ op = "group_unpack"
      /\ is_dir(arg) \/ (is_file(arg) /\ matches_m_star_ovf(arg[2])) )
    => /\ result # Raise("UnboundLocalError")
       /\ files = sorted(glob(<<fs.dir>>))

\* A single-file function is at work on a file, or has just ended on one.
OnFile ==
    IF op = "group_unpack" THEN idx > 0 /\ pc \in {"dispatch", "endianness", "binary_decode", "group_loop"}
    ELSE op \in {"unpack", "unpack_scalars"} /\ is_file(arg)

\* The binary decode of a file that suits the function called is over.
BinaryDecodeOver ==
    /\ OnFile
    /\ pc \in {"done", "group_loop"}
    /\ IF fn = "unpack" THEN GoodBinaryVector(CurMeta) ELSE GoodScalar(CurMeta)

\* C13: a binary decode consumes the stream in order and without overlap:
\* when _read_header has returned, the cursor is immediately after the
\* marker line; when _endianness has returned, exactly w bytes more are
\* consumed and the payload is still unread; when the decoder has returned,
\* exactly cells * components * w bytes more are consumed, and value p of
\* the array is decoded from the w bytes at offset (p - 1) * w after the
\* control mark, none of them a byte of the mark.
C13_StreamOrder ==
    /\ (OnFile /\ pc \in {"dispatch", "endianness"})
       => f.pos = Len(HeaderBytes(CurMeta))
    /\ (OnFile /\ pc = "binary_decode")
       => f.pos = Len(HeaderBytes(CurMeta)) + chunk_size
    /\ BinaryDecodeOver
       => LET m == CurMeta
              h == Len(HeaderBytes(m))
              n == Cells(m) * (IF fn = "unpack" THEN 3 ELSE 1)
              arr == IF op = "group_unpack" THEN acc[Len(acc)] ELSE result.val
          IN /\ chunk_size = m.w
             /\ f.pos = h + m.w + n * m.w
             /\ Len(arr.flat) = n
             /\ \A p \in 1..n :
                   arr.flat[p]
                     = struct_unpack(dtype, SubSeq(f.data, h + m.w + (p - 1) * m.w + 1,
                                                   h + m.w + p * m.w)).val

\* unpack has decoded a 2 x 1 x 1 binary file of 8-byte values to its end.
C13_Witness ==
    /\ FileCallDone("unpack")
    /\ BinaryDecodeOver
    /\ CurMeta.nx = 2 /\ CurMeta.ny = 1 /\ CurMeta.nz = 1 /\ CurMeta.w = 8
    /\ f.pos = Len(HeaderBytes(CurMeta)) + 8 + 48
    /\ ReturnedArray

====
